---- MODULE Spec2Model ----
(***************************************************************************)
(* Model of the SkillNFT canister (src/src/capsule/src/lib.rs): the        *)
(* process-wide SkillTreeStorage and its update / query entry points.      *)
(*                                                                         *)
(* u64 values are kept at their full 64-bit width.  TLC's integers are 32  *)
(* bit, so a u64 is a tuple of four 16-bit limbs, least significant first, *)
(* and +, -, <, / 10 are computed limb by limb.                            *)
(***************************************************************************)
EXTENDS Integers, Sequences, FiniteSets, Bags, TLC

\* ------------------------------------------------------------------ u64
Base == 65536

U64Zero == <<0, 0, 0, 0>>
U64Max == <<Base - 1, Base - 1, Base - 1, Base - 1>>

\* a small natural (below 2^31) as a u64
U64(n) == <<n % Base, (n \div Base) % Base, 0, 0>>

\* a + b computed exactly: the 64-bit result and the carry out of bit 63
U64AddCarry(a, b) ==
    LET s1 == a[1] + b[1]
        s2 == a[2] + b[2] + (s1 \div Base)
        s3 == a[3] + b[3] + (s2 \div Base)
        s4 == a[4] + b[4] + (s3 \div Base)
    IN  [val |-> <<s1 % Base, s2 % Base, s3 % Base, s4 % Base>>,
         carry |-> s4 \div Base]

\* a < b on u64
U64Lt(a, b) ==
    \/ a[4] < b[4]
    \/ a[4] = b[4] /\ a[3] < b[3]
    \/ a[4] = b[4] /\ a[3] = b[3] /\ a[2] < b[2]
    \/ a[4] = b[4] /\ a[3] = b[3] /\ a[2] = b[2] /\ a[1] < b[1]

\* a - b on u64, modulo 2^64 (exact when b <= a)
U64Sub(a, b) ==
    LET d1 == a[1] - b[1]
        w1 == IF d1 < 0 THEN 1 ELSE 0
        d2 == a[2] - b[2] - w1
        w2 == IF d2 < 0 THEN 1 ELSE 0
        d3 == a[3] - b[3] - w2
        w3 == IF d3 < 0 THEN 1 ELSE 0
        d4 == a[4] - b[4] - w3
    IN  <<d1 % Base, d2 % Base, d3 % Base, d4 % Base>>

\* a / 10 on u64 (truncating), by long division from the top limb
U64Div10(a) ==
    LET r4 == a[4] % 10
        t3 == r4 * Base + a[3]
        t2 == (t3 % 10) * Base + a[2]
        t1 == (t2 % 10) * Base + a[1]
    IN  <<t1 \div 10, t2 \div 10, t3 \div 10, a[4] \div 10>>

\* ------------------------------------------------------------ values
None == <<>>
Some(v) == <<v>>

Ok(v) == [tag |-> "Ok", val |-> v]
Err(msg) == [tag |-> "Err", val |-> msg]
\* a panic inside an update call: the message traps and its changes are rolled back
Trap == [tag |-> "Trap", val |-> "attempt to add with overflow"]
\* add_balance suspended at the inter-canister call
Await == [tag |-> "Await", val |-> "icrc1_transfer"]

IsOk(r) == r.tag = "Ok"
IsErr(r, msg) == r.tag = "Err" /\ r.val = msg

\* HashMap::get(..).unwrap_or(&0)
GetOr0(m, k) == IF k \in DOMAIN m THEN m[k] ELSE U64Zero
\* HashMap::insert
Insert(m, k, v) == [y \in (DOMAIN m) \cup {k} |-> IF y = k THEN v ELSE m[y]]

\* str::trim on a text given as a sequence of characters
IsSpace(c) == c \in {" ", "\t", "\n"}
RECURSIVE TrimStart(_)
TrimStart(t) == IF t # <<>> /\ IsSpace(Head(t)) THEN TrimStart(Tail(t)) ELSE t
RECURSIVE TrimEnd(_)
TrimEnd(t) ==
    IF t # <<>> /\ IsSpace(t[Len(t)]) THEN TrimEnd(SubSeq(t, 1, Len(t) - 1)) ELSE t
Trim(t) == TrimEnd(TrimStart(t))

\* ------------------------------------------------------------ bounds and inputs
\* how many update calls may take effect (a mint, a sale, a listing, a transfer,
\* a deactivation, an add_balance reaching its await) in one behaviour
MaxUpdates == 4

Principals == {"alice", "bob", "carol"}
Minters == {"alice", "bob"}
Titles == {<<" ", "\t">>, <<" ", "R", "u", "s", "t">>}
Descriptions == {<<>>, <<"i", "n", "t", "r", "o">>}
Prices == {U64Zero, U64(15), U64(100)}
ResalePrices == {U64Zero, U64(250)}
\* the add_balance calls tried: <<caller, amount>>
TopUps == {<<"alice", U64Zero>>, <<"alice", U64Max>>, <<"bob", U64(150)>>,
           <<"carol", U64(150)>>}
NftIds == {0, 1}

\* ------------------------------------------------------------ state
VARIABLES
    State,            \* the SkillTreeStorage behind the thread_local
    in_flight,        \* add_balance calls suspended at the await: a bag of [caller, amount]
    last,             \* the call being executed, with its arguments and its reply (for an
                      \* add_balance resumed after the await: <<amount, ledger said Ok>>)
    settled,          \* history: exact sum of the amounts of add_balance calls that replied Ok
    issued,           \* history: ids returned by successful mints
    deactivated,      \* history: ids of the nfts a deactivate_nft call returned Ok for
    listed,           \* history: id -> the caller whose set_resale_price call last returned
                      \* Ok for it, forgotten when the nft's owner changes
    n_updates         \* history: number of update calls that have taken effect since
                      \* the initial state

vars == <<State, in_flight, last, settled, issued, deactivated,
          listed, n_updates>>

hist == <<settled, issued, deactivated, listed, n_updates>>

Called(op, caller, args, result) ==
    [op |-> op, caller |-> caller, args |-> args, result |-> result]
Idle == Called("idle", "none", <<>>, Ok(<<>>))

\* SkillTreeStorage::default()
DefaultStorage ==
    [nfts |-> <<>>, next_id |-> 0, balances |-> <<>>, creator_royalties |-> <<>>]

\* an exact natural number hi * 2^64 + lo, for the history sums
BigZero == [hi |-> 0, lo |-> U64Zero]
BigAdd(b, a) ==
    LET s == U64AddCarry(b.lo, a) IN [hi |-> b.hi + s.carry, lo |-> s.val]

RECURSIVE SumOver(_, _)
SumOver(m, ks) ==
    IF ks = {} THEN BigZero
    ELSE LET k == CHOOSE y \in ks : TRUE IN BigAdd(SumOver(m, ks \ {k}), m[k])
\* the exact sum of all account balances
TotalBalances(st) == SumOver(st.balances, DOMAIN st.balances)

Init ==
    /\ State = DefaultStorage
    /\ in_flight = EmptyBag
    /\ last = Idle
    /\ settled = BigZero
    /\ issued = {}
    /\ deactivated = {}
    /\ listed = <<>>
    /\ n_updates = 0

\* ------------------------------------------------------------ handlers
\* Each handler is a function of the stored state and the call: it yields the
\* state after the call and the reply.  A u64 `+` that overflows either panics
\* (overflow checks on: the call traps and its changes are rolled back) or
\* wraps modulo 2^64 (overflow checks off, the release profile's default); the
\* handlers that add take the build's choice as overflow_checks.

validate_input(title, description, price) ==
    IF Trim(title) = <<>> THEN Err("Title cannot be empty")
    ELSE IF Trim(description) = <<>> THEN Err("Description cannot be empty")
    ELSE IF price = U64Zero THEN Err("Price must be greater than zero")
    ELSE Ok(<<>>)

\* mutant: the counter is read but not advanced
generate_unique_id_reusing(st) == [state |-> st, id |-> st.next_id]

\* mutant: the id is read after the counter is advanced
generate_unique_id_after_increment(st) ==
    [state |-> [st EXCEPT !.next_id = st.next_id + 1], id |-> st.next_id + 1]

\* next_id is kept an unbounded natural: it wraps only after 2^64 mints
generate_unique_id(st) ==
    [state |-> [st EXCEPT !.next_id = st.next_id + 1], id |-> st.next_id]

\* mutant: the id is allocated before the input is validated
mint_skill_nft_id_first(st, caller, title, description, price, unlock_duration, metadata) ==
    LET g == generate_unique_id(st)
        v == validate_input(title, description, price)
        nft == [id |-> g.id, title |-> title, description |-> description,
                creator |-> caller, price |-> price,
                unlock_duration |-> unlock_duration, metadata |-> metadata,
                owner |-> caller, resale_price |-> None, is_active |-> TRUE]
    IN  IF ~IsOk(v) THEN [state |-> g.state, result |-> v]
        ELSE [state |-> [g.state EXCEPT !.nfts = Insert(g.state.nfts, g.id, nft)],
              result |-> Ok(g.id)]

mint_skill_nft(st, caller, title, description, price, unlock_duration, metadata) ==
    LET v == validate_input(title, description, price) IN
    IF ~IsOk(v) THEN [state |-> st, result |-> v]
    ELSE
        LET g == generate_unique_id(st)
            nft == [id |-> g.id, title |-> title, description |-> description,
                    creator |-> caller, price |-> price,
                    unlock_duration |-> unlock_duration, metadata |-> metadata,
                    owner |-> caller, resale_price |-> None, is_active |-> TRUE]
        IN  [state |-> [g.state EXCEPT !.nfts = Insert(g.state.nfts, g.id, nft)],
             result |-> Ok(g.id)]

\* mutant: the buyer takes over the creator's place along with the ownership
perform_purchase_replacing_creator(st, overflow_checks, buyer, nft_id, nft_details, buyer_balance) ==
    LET b1 == Insert(st.balances, buyer, U64Sub(buyer_balance, nft_details.price))
        creator_balance == GetOr0(b1, nft_details.creator)
        credit == U64AddCarry(creator_balance, nft_details.price)
        b2 == Insert(b1, nft_details.creator, credit.val)
        nft == [nft_details EXCEPT !.owner = buyer, !.creator = buyer,
                                   !.resale_price = None]
        royalty == U64Div10(nft_details.price)
        creator_royalty == GetOr0(st.creator_royalties, nft_details.creator)
        accrual == U64AddCarry(creator_royalty, royalty)
    IN  IF overflow_checks /\ (credit.carry = 1 \/ accrual.carry = 1)
        THEN [state |-> st, result |-> Trap]
        ELSE [state |-> [st EXCEPT
                  !.balances = b2,
                  !.nfts = Insert(st.nfts, nft_id, nft),
                  !.creator_royalties =
                      Insert(st.creator_royalties, nft_details.creator, accrual.val)],
              result |-> Ok(<<>>)]

\* "Perform the purchase": the last STATE.with block of purchase_skill_nft
perform_purchase(st, overflow_checks, buyer, nft_id, nft_details, buyer_balance) ==
    LET b1 == Insert(st.balances, buyer, U64Sub(buyer_balance, nft_details.price))
        creator_balance == GetOr0(b1, nft_details.creator)
        credit == U64AddCarry(creator_balance, nft_details.price)
        b2 == Insert(b1, nft_details.creator, credit.val)
        nft == [nft_details EXCEPT !.owner = buyer, !.resale_price = None]
        royalty == U64Div10(nft_details.price)
        creator_royalty == GetOr0(st.creator_royalties, nft_details.creator)
        accrual == U64AddCarry(creator_royalty, royalty)
    IN  IF overflow_checks /\ (credit.carry = 1 \/ accrual.carry = 1)
        THEN [state |-> st, result |-> Trap]
        ELSE [state |-> [st EXCEPT
                  !.balances = b2,
                  !.nfts = Insert(st.nfts, nft_id, nft),
                  !.creator_royalties =
                      Insert(st.creator_royalties, nft_details.creator, accrual.val)],
              result |-> Ok(<<>>)]

\* mutant: the is_active check is missing
purchase_skill_nft_of_inactive(st, overflow_checks, buyer, nft_id) ==
    IF nft_id \notin DOMAIN st.nfts THEN [state |-> st, result |-> Err("NFT not found")]
    ELSE
    LET nft_details == st.nfts[nft_id] IN
    IF buyer = nft_details.owner
    THEN [state |-> st, result |-> Err("Cannot purchase your own NFT")]
    ELSE
    LET buyer_balance == GetOr0(st.balances, buyer) IN
    IF U64Lt(buyer_balance, nft_details.price)
    THEN [state |-> st, result |-> Err("Insufficient balance")]
    ELSE perform_purchase(st, overflow_checks, buyer, nft_id, nft_details, buyer_balance)

\* mutant: the buyer == owner check is missing
purchase_skill_nft_by_owner(st, overflow_checks, buyer, nft_id) ==
    IF nft_id \notin DOMAIN st.nfts THEN [state |-> st, result |-> Err("NFT not found")]
    ELSE
    LET nft_details == st.nfts[nft_id] IN
    IF ~nft_details.is_active THEN [state |-> st, result |-> Err("NFT is not active")]
    ELSE
    LET buyer_balance == GetOr0(st.balances, buyer) IN
    IF U64Lt(buyer_balance, nft_details.price)
    THEN [state |-> st, result |-> Err("Insufficient balance")]
    ELSE perform_purchase(st, overflow_checks, buyer, nft_id, nft_details, buyer_balance)

purchase_skill_nft(st, overflow_checks, buyer, nft_id) ==
    IF nft_id \notin DOMAIN st.nfts THEN [state |-> st, result |-> Err("NFT not found")]
    ELSE
    LET nft_details == st.nfts[nft_id] IN
    IF ~nft_details.is_active THEN [state |-> st, result |-> Err("NFT is not active")]
    ELSE IF buyer = nft_details.owner
    THEN [state |-> st, result |-> Err("Cannot purchase your own NFT")]
    ELSE
    LET buyer_balance == GetOr0(st.balances, buyer) IN
    IF U64Lt(buyer_balance, nft_details.price)
    THEN [state |-> st, result |-> Err("Insufficient balance")]
    ELSE
    perform_purchase(st, overflow_checks, buyer, nft_id, nft_details, buyer_balance)

\* mutant: listing an nft for resale puts it back on the market
set_resale_price_reactivating(st, owner, nft_id, price) ==
    IF price = U64Zero
    THEN [state |-> st, result |-> Err("Resale price must be greater than zero")]
    ELSE IF nft_id \in DOMAIN st.nfts
    THEN IF st.nfts[nft_id].owner # owner
         THEN [state |-> st, result |-> Err("Only the owner can set the resale price")]
         ELSE [state |-> [st EXCEPT !.nfts[nft_id].resale_price = Some(price),
                                    !.nfts[nft_id].is_active = TRUE],
               result |-> Ok(<<>>)]
    ELSE [state |-> st, result |-> Err("NFT not found")]

set_resale_price(st, owner, nft_id, price) ==
    IF price = U64Zero
    THEN [state |-> st, result |-> Err("Resale price must be greater than zero")]
    ELSE IF nft_id \in DOMAIN st.nfts
    THEN IF st.nfts[nft_id].owner # owner
         THEN [state |-> st, result |-> Err("Only the owner can set the resale price")]
         ELSE [state |-> [st EXCEPT !.nfts[nft_id].resale_price = Some(price)],
               result |-> Ok(<<>>)]
    ELSE [state |-> st, result |-> Err("NFT not found")]

get_nft(st, nft_id) == IF nft_id \in DOMAIN st.nfts THEN Some(st.nfts[nft_id]) ELSE None

\* the Vec is in HashMap iteration order, which is unspecified: the reply is
\* modelled by the set of its elements
get_user_nfts(st, user) == {st.nfts[i] : i \in {j \in DOMAIN st.nfts : st.nfts[j].owner = user}}

get_active_nfts(st) == {st.nfts[i] : i \in {j \in DOMAIN st.nfts : st.nfts[j].is_active}}

\* mutant: the caller is compared with the owner instead of the creator
deactivate_nft_by_owner(st, caller, nft_id) ==
    IF nft_id \in DOMAIN st.nfts
    THEN IF st.nfts[nft_id].owner # caller
         THEN [state |-> st, result |-> Err("Only the creator can deactivate the NFT")]
         ELSE [state |-> [st EXCEPT !.nfts[nft_id].is_active = FALSE],
               result |-> Ok(<<>>)]
    ELSE [state |-> st, result |-> Err("NFT not found")]

deactivate_nft(st, caller, nft_id) ==
    IF nft_id \in DOMAIN st.nfts
    THEN IF st.nfts[nft_id].creator # caller
         THEN [state |-> st, result |-> Err("Only the creator can deactivate the NFT")]
         ELSE [state |-> [st EXCEPT !.nfts[nft_id].is_active = FALSE],
               result |-> Ok(<<>>)]
    ELSE [state |-> st, result |-> Err("NFT not found")]

\* mutant: the resale price is not reset
transfer_nft_ownership_keeping_listing(st, caller, nft_id, new_owner) ==
    IF nft_id \notin DOMAIN st.nfts THEN [state |-> st, result |-> Err("NFT not found")]
    ELSE IF st.nfts[nft_id].owner # caller
    THEN [state |-> st, result |-> Err("Only the current owner can transfer ownership")]
    ELSE IF ~st.nfts[nft_id].is_active
    THEN [state |-> st, result |-> Err("Cannot transfer an inactive NFT")]
    ELSE IF new_owner = caller
    THEN [state |-> st,
          result |-> Err("New owner must be different from the current owner")]
    ELSE [state |-> [st EXCEPT !.nfts[nft_id].owner = new_owner],
          result |-> Ok(<<>>)]

\* mutant: the new owner becomes the creator as well
transfer_nft_ownership_with_creator(st, caller, nft_id, new_owner) ==
    IF nft_id \notin DOMAIN st.nfts THEN [state |-> st, result |-> Err("NFT not found")]
    ELSE IF st.nfts[nft_id].owner # caller
    THEN [state |-> st, result |-> Err("Only the current owner can transfer ownership")]
    ELSE IF ~st.nfts[nft_id].is_active
    THEN [state |-> st, result |-> Err("Cannot transfer an inactive NFT")]
    ELSE IF new_owner = caller
    THEN [state |-> st,
          result |-> Err("New owner must be different from the current owner")]
    ELSE [state |-> [st EXCEPT !.nfts[nft_id].owner = new_owner,
                               !.nfts[nft_id].creator = new_owner,
                               !.nfts[nft_id].resale_price = None],
          result |-> Ok(<<>>)]

\* mutant: is_active is looked at before the caller is
transfer_nft_ownership_active_first(st, caller, nft_id, new_owner) ==
    IF nft_id \notin DOMAIN st.nfts THEN [state |-> st, result |-> Err("NFT not found")]
    ELSE IF ~st.nfts[nft_id].is_active
    THEN [state |-> st, result |-> Err("Cannot transfer an inactive NFT")]
    ELSE IF st.nfts[nft_id].owner # caller
    THEN [state |-> st, result |-> Err("Only the current owner can transfer ownership")]
    ELSE IF new_owner = caller
    THEN [state |-> st,
          result |-> Err("New owner must be different from the current owner")]
    ELSE [state |-> [st EXCEPT !.nfts[nft_id].owner = new_owner,
                               !.nfts[nft_id].resale_price = None],
          result |-> Ok(<<>>)]

transfer_nft_ownership(st, caller, nft_id, new_owner) ==
    IF nft_id \notin DOMAIN st.nfts THEN [state |-> st, result |-> Err("NFT not found")]
    ELSE IF st.nfts[nft_id].owner # caller
    THEN [state |-> st, result |-> Err("Only the current owner can transfer ownership")]
    ELSE IF ~st.nfts[nft_id].is_active
    THEN [state |-> st, result |-> Err("Cannot transfer an inactive NFT")]
    ELSE IF new_owner = caller
    THEN [state |-> st,
          result |-> Err("New owner must be different from the current owner")]
    ELSE [state |-> [st EXCEPT !.nfts[nft_id].owner = new_owner,
                               !.nfts[nft_id].resale_price = None],
          result |-> Ok(<<>>)]

\* add_balance up to the await
add_balance_call(amount) ==
    IF amount = U64Zero THEN Err("Amount must be greater than zero") ELSE Await

\* add_balance from the await on: the match on transfer_result (the Err reply
\* also carries the ledger's failure detail, which nothing reads)
add_balance_reply(st, overflow_checks, caller, amount, transfer_ok) ==
    IF transfer_ok
    THEN LET balance == GetOr0(st.balances, caller)
             sum == U64AddCarry(balance, amount)
         IN  IF overflow_checks /\ sum.carry = 1
             THEN [state |-> st, result |-> Trap]
             ELSE [state |-> [st EXCEPT !.balances = Insert(st.balances, caller, sum.val)],
                   result |-> Ok(<<>>)]
    ELSE [state |-> st, result |-> Err("Failed to add balance")]

\* ------------------------------------------------------------ actions
\* The canister executes one message at a time: a call is taken up only when no
\* other message is executing, and `last` holds the call and its reply until
\* the reply has been delivered (Respond).

\* the listings that survive a call: those of the nfts whose owner it left alone
StillListed(before, after) ==
    [i \in {j \in DOMAIN listed : after.nfts[j].owner = before.nfts[j].owner} |-> listed[i]]

Used(result) == IF IsOk(result) THEN n_updates + 1 ELSE n_updates

Mint(caller, title, description, price) ==
    LET r == mint_skill_nft(State, caller, title, description, price, None, <<>>) IN
    /\ last = Idle
    /\ IsOk(r.result) => n_updates < MaxUpdates
    /\ State' = r.state
    /\ last' = Called("mint_skill_nft", caller, <<title, description, price>>, r.result)
    /\ issued' = IF IsOk(r.result) THEN issued \cup {r.result.val} ELSE issued
    /\ n_updates' = Used(r.result)
    /\ UNCHANGED <<in_flight, settled, deactivated, listed>>

\* mutant: the store is held locked while an add_balance call is suspended
Purchase_while_locked(caller, nft_id, overflow_checks) ==
    LET r == IF in_flight = EmptyBag
             THEN purchase_skill_nft(State, overflow_checks, caller, nft_id)
             ELSE [state |-> State, result |-> Err("Store is locked")]
    IN
    /\ last = Idle
    /\ IsOk(r.result) => n_updates < MaxUpdates
    /\ State' = r.state
    /\ last' = Called("purchase_skill_nft", caller, <<nft_id>>, r.result)
    /\ listed' = StillListed(State, r.state)
    /\ n_updates' = Used(r.result)
    /\ UNCHANGED <<in_flight, settled, issued, deactivated>>

Purchase(caller, nft_id, overflow_checks) ==
    LET r == purchase_skill_nft(State, overflow_checks, caller, nft_id) IN
    /\ last = Idle
    /\ IsOk(r.result) => n_updates < MaxUpdates
    /\ State' = r.state
    /\ last' = Called("purchase_skill_nft", caller, <<nft_id>>, r.result)
    /\ listed' = StillListed(State, r.state)
    /\ n_updates' = Used(r.result)
    /\ UNCHANGED <<in_flight, settled, issued, deactivated>>

SetResalePrice(caller, nft_id, price) ==
    LET r == set_resale_price(State, caller, nft_id, price) IN
    /\ last = Idle
    /\ IsOk(r.result) => n_updates < MaxUpdates
    /\ State' = r.state
    /\ last' = Called("set_resale_price", caller, <<nft_id, price>>, r.result)
    /\ listed' = IF IsOk(r.result) THEN Insert(listed, nft_id, caller) ELSE listed
    /\ n_updates' = Used(r.result)
    /\ UNCHANGED <<in_flight, settled, issued, deactivated>>

GetNft(nft_id) ==
    /\ last = Idle
    /\ last' = Called("get_nft", "anyone", <<nft_id>>, Ok(get_nft(State, nft_id)))
    /\ UNCHANGED <<State, in_flight, hist>>

GetUserNfts(user) ==
    /\ last = Idle
    /\ last' = Called("get_user_nfts", "anyone", <<user>>, Ok(get_user_nfts(State, user)))
    /\ UNCHANGED <<State, in_flight, hist>>

GetActiveNfts ==
    /\ last = Idle
    /\ last' = Called("get_active_nfts", "anyone", <<>>, Ok(get_active_nfts(State)))
    /\ UNCHANGED <<State, in_flight, hist>>

Deactivate(caller, nft_id) ==
    LET r == deactivate_nft(State, caller, nft_id) IN
    /\ last = Idle
    /\ IsOk(r.result) => n_updates < MaxUpdates
    /\ State' = r.state
    /\ last' = Called("deactivate_nft", caller, <<nft_id>>, r.result)
    /\ deactivated' = IF IsOk(r.result) THEN deactivated \cup {nft_id} ELSE deactivated
    /\ n_updates' = Used(r.result)
    /\ UNCHANGED <<in_flight, settled, issued, listed>>

Transfer(caller, nft_id, new_owner) ==
    LET r == transfer_nft_ownership(State, caller, nft_id, new_owner) IN
    /\ last = Idle
    /\ IsOk(r.result) => n_updates < MaxUpdates
    /\ State' = r.state
    /\ last' = Called("transfer_nft_ownership", caller, <<nft_id, new_owner>>, r.result)
    /\ listed' = StillListed(State, r.state)
    /\ n_updates' = Used(r.result)
    /\ UNCHANGED <<in_flight, settled, issued, deactivated>>

\* add_balance from its invocation to the await (or to its early return)
AddBalanceCall(caller, amount) ==
    LET r == add_balance_call(amount)
        suspended == r.tag = "Await"
    IN
    /\ last = Idle
    /\ suspended => n_updates < MaxUpdates
    /\ in_flight' = IF suspended
                    THEN in_flight (+) SetToBag({[caller |-> caller, amount |-> amount]})
                    ELSE in_flight
    /\ n_updates' = IF suspended THEN n_updates + 1 ELSE n_updates
    /\ last' = Called("add_balance", caller, <<amount>>, r)
    /\ UNCHANGED <<State, settled, issued, deactivated, listed>>

\* the ledger's response arrives and add_balance resumes after the await
AddBalanceReply(c, transfer_ok, overflow_checks) ==
    LET r == add_balance_reply(State, overflow_checks, c.caller, c.amount, transfer_ok) IN
    /\ last = Idle
    /\ BagIn(c, in_flight)
    /\ in_flight' = in_flight (-) SetToBag({c})
    /\ State' = r.state
    /\ last' = Called("add_balance", c.caller, <<c.amount, transfer_ok>>, r.result)
    /\ settled' = IF IsOk(r.result) THEN BigAdd(settled, c.amount) ELSE settled
    /\ UNCHANGED <<issued, deactivated, listed, n_updates>>

\* the reply of the executed call is delivered to its caller
Respond ==
    /\ last # Idle
    /\ last' = Idle
    /\ UNCHANGED <<State, in_flight, hist>>

Next ==
    \/ \E caller \in Minters, title \in Titles, description \in Descriptions,
          price \in Prices : Mint(caller, title, description, price)
    \/ \E caller \in Principals, nft_id \in NftIds, overflow_checks \in BOOLEAN :
          Purchase(caller, nft_id, overflow_checks)
    \/ \E caller \in Principals, nft_id \in NftIds, price \in ResalePrices :
          SetResalePrice(caller, nft_id, price)
    \/ \E nft_id \in NftIds : GetNft(nft_id)
    \/ \E user \in Principals : GetUserNfts(user)
    \/ GetActiveNfts
    \/ \E caller \in Principals, nft_id \in NftIds : Deactivate(caller, nft_id)
    \/ \E caller \in Principals, nft_id \in NftIds, new_owner \in Principals :
          Transfer(caller, nft_id, new_owner)
    \/ \E t \in TopUps : AddBalanceCall(t[1], t[2])
    \/ \E c \in BagToSet(in_flight), transfer_ok \in BOOLEAN, overflow_checks \in BOOLEAN :
          AddBalanceReply(c, transfer_ok, overflow_checks)
    \/ Respond

Spec == Init /\ [][Next]_vars

\* ------------------------------------------------------------ properties
\* a step that executes a call of the handler op

\* ------------------------------------------------------------ a long-lived store
\* A store late in the life of one nft: alice has minted nft 0 at the price
\* 2^64 - 1, has topped her balance up by that amount, and has RoyaltyRounds
\* times given the nft to bob (transfer_nft_ownership) and bought it back
\* (purchase_skill_nft).  None of these calls overflows, whatever the build.
RoyaltyRounds == 10

RECURSIVE BoughtBack(_, _)
BoughtBack(st, n) ==
    IF n = 0 THEN st
    ELSE LET given == transfer_nft_ownership(BoughtBack(st, n - 1), "alice", 0, "bob")
         IN  purchase_skill_nft(given.state, TRUE, "alice", 0).state

InitRoyalty ==
    LET minted == mint_skill_nft(DefaultStorage, "alice", <<"R", "u", "s", "t">>,
                                 <<"i", "n", "t", "r", "o">>, U64Max, None, <<>>)
        funded == add_balance_reply(minted.state, TRUE, "alice", U64Max, TRUE)
    IN  /\ State = BoughtBack(funded.state, RoyaltyRounds)
        /\ in_flight = EmptyBag
        /\ last = Idle
        /\ settled = BigAdd(BigZero, U64Max)
        /\ issued = {minted.result.val}
        /\ deactivated = {}
        /\ listed = <<>>
        /\ n_updates = 0

\* the calls of Next, made on the long-lived store
SpecRoyalty == InitRoyalty /\ [][Next]_vars

\* ------------------------------------------------------------ upgrade
\* stable_save writes the Candid encoding of the store to stable memory and
\* stable_restore decodes it.  A u64 is encoded as its 8 bytes, least
\* significant first; an Option as a tag byte followed by the value, if any; a
\* bool as one byte; a HashMap as the vector of its (key, value) entries in the
\* map's iteration order, which no caller controls; text and principals as
\* themselves.
U64ToLeBytes(a) ==
    <<a[1] % 256, a[1] \div 256, a[2] % 256, a[2] \div 256,
      a[3] % 256, a[3] \div 256, a[4] % 256, a[4] \div 256>>
U64FromLeBytes(b) ==
    <<b[1] + 256 * b[2], b[3] + 256 * b[4], b[5] + 256 * b[6], b[7] + 256 * b[8]>>
\* the stored ids and next_id are kept as plain numbers
IdToLeBytes(n) == U64ToLeBytes(U64(n))
IdFromLeBytes(b) == LET a == U64FromLeBytes(b) IN a[1] + Base * a[2]

OptToBytes(o) == IF o = None THEN <<0>> ELSE <<1>> \o U64ToLeBytes(o[1])
OptFromBytes(b) == IF Head(b) = 0 THEN None ELSE Some(U64FromLeBytes(Tail(b)))

BoolToByte(v) == IF v THEN 1 ELSE 0
BoolFromByte(b) == b # 0

NftToCandid(nft) ==
    [id |-> IdToLeBytes(nft.id), title |-> nft.title, description |-> nft.description,
     creator |-> nft.creator, price |-> U64ToLeBytes(nft.price),
     unlock_duration |-> OptToBytes(nft.unlock_duration), metadata |-> nft.metadata,
     owner |-> nft.owner, resale_price |-> OptToBytes(nft.resale_price),
     is_active |-> BoolToByte(nft.is_active)]
NftFromCandid(c) ==
    [id |-> IdFromLeBytes(c.id), title |-> c.title, description |-> c.description,
     creator |-> c.creator, price |-> U64FromLeBytes(c.price),
     unlock_duration |-> OptFromBytes(c.unlock_duration), metadata |-> c.metadata,
     owner |-> c.owner, resale_price |-> OptFromBytes(c.resale_price),
     is_active |-> BoolFromByte(c.is_active)]

\* the orders in which a map with the key set ks may be iterated
RECURSIVE IterationOrders(_)
IterationOrders(ks) ==
    IF ks = {} THEN {<<>>}
    ELSE UNION {{<<k>> \o o : o \in IterationOrders(ks \ {k})} : k \in ks}

\* HashMap::from_iter over decoded entries <<key, value>>: of two entries with
\* one key the later one stays
FromEntries(es) ==
    [k \in {es[i][1] : i \in DOMAIN es} |->
        LET at == {i \in DOMAIN es : es[i][1] = k}
        IN  es[CHOOSE i \in at : \A j \in at : j <= i][2]]

\* pre_upgrade: what stable_save((state.clone(),)) leaves in stable memory
pre_upgrade(st, nft_order, balance_order, royalty_order) ==
    [nfts |-> [i \in DOMAIN nft_order |->
                  <<IdToLeBytes(nft_order[i]), NftToCandid(st.nfts[nft_order[i]])>>],
     next_id |-> IdToLeBytes(st.next_id),
     balances |-> [i \in DOMAIN balance_order |->
                  <<balance_order[i], U64ToLeBytes(st.balances[balance_order[i]])>>],
     creator_royalties |-> [i \in DOMAIN royalty_order |->
                  <<royalty_order[i],
                    U64ToLeBytes(st.creator_royalties[royalty_order[i]])>>]]

\* mutant: next_id is left out of what is restored
post_upgrade_without_next_id(stable) ==
    [nfts |-> FromEntries([i \in DOMAIN stable.nfts |->
                  <<IdFromLeBytes(stable.nfts[i][1]), NftFromCandid(stable.nfts[i][2])>>]),
     next_id |-> DefaultStorage.next_id,
     balances |-> FromEntries([i \in DOMAIN stable.balances |->
                  <<stable.balances[i][1], U64FromLeBytes(stable.balances[i][2])>>]),
     creator_royalties |-> FromEntries([i \in DOMAIN stable.creator_royalties |->
                  <<stable.creator_royalties[i][1],
                    U64FromLeBytes(stable.creator_royalties[i][2])>>])]

\* post_upgrade: the store stable_restore() decodes, which replaces STATE
post_upgrade(stable) ==
    [nfts |-> FromEntries([i \in DOMAIN stable.nfts |->
                  <<IdFromLeBytes(stable.nfts[i][1]), NftFromCandid(stable.nfts[i][2])>>]),
     next_id |-> IdFromLeBytes(stable.next_id),
     balances |-> FromEntries([i \in DOMAIN stable.balances |->
                  <<stable.balances[i][1], U64FromLeBytes(stable.balances[i][2])>>]),
     creator_royalties |-> FromEntries([i \in DOMAIN stable.creator_royalties |->
                  <<stable.creator_royalties[i][1],
                    U64FromLeBytes(stable.creator_royalties[i][2])>>])]

\* a canister upgrade: pre_upgrade runs on the old instance, the heap is
\* dropped, post_upgrade runs on the new instance; no call runs in between and
\* the calls suspended at an await stay suspended
Upgrade ==
    /\ last = Idle
    /\ \E nft_order \in IterationOrders(DOMAIN State.nfts),
          balance_order \in IterationOrders(DOMAIN State.balances),
          royalty_order \in IterationOrders(DOMAIN State.creator_royalties) :
          LET stable == pre_upgrade(State, nft_order, balance_order, royalty_order)
          IN  State' = post_upgrade(stable)
    /\ last' = Called("post_upgrade", "controller", <<>>, Ok(<<>>))
    /\ UNCHANGED <<in_flight, hist>>

NextUpgrade ==
    \/ Next
    \/ Upgrade

SpecUpgrade == Init /\ [][NextUpgrade]_vars

Runs(op) == last = Idle /\ last'.op = op
\* the step that resumes an add_balance call after its await
Resumes == Runs("add_balance") /\ Len(last'.args) = 2
\* sum is the exact, unbounded sum a + b
ExactSum(a, b, sum) == U64AddCarry(a, b) = [val |-> sum, carry |-> 0]

Balance(st, who) == GetOr0(st.balances, who)
Royalty(st, who) == GetOr0(st.creator_royalties, who)

\* the purchase of an existing, active nft by someone who is not its owner
Buys(buyer, nft_id) ==
    /\ Runs("purchase_skill_nft")
    /\ last'.caller = buyer
    /\ last'.args = <<nft_id>>
    /\ nft_id \in DOMAIN State.nfts
    /\ State.nfts[nft_id].is_active
    /\ State.nfts[nft_id].owner # buyer

\* what C1 says of a purchase that the buyer can afford
SettledAtMintPrice(buyer, nft_id) ==
    LET nft == State.nfts[nft_id]
        paid == U64Sub(Balance(State, buyer), nft.price)
    IN  /\ IsOk(last'.result)
        /\ State'.nfts[nft_id].owner = buyer
        /\ IF buyer = nft.creator
           THEN Balance(State', buyer) = Balance(State, buyer)
           ELSE /\ Balance(State', buyer) = paid
                /\ ExactSum(Balance(State, nft.creator), nft.price,
                            Balance(State', nft.creator))
        /\ ExactSum(Royalty(State, nft.creator), U64Div10(nft.price),
                    Royalty(State', nft.creator))
        /\ \A p \in Principals \ {buyer, nft.creator} :
              Balance(State', p) = Balance(State, p)
        /\ \A p \in Principals \ {nft.creator} : Royalty(State', p) = Royalty(State, p)

\* C1: a purchase of an existing, active nft by a non-owner fails with
\* "Insufficient balance" when the buyer's balance is below the nft's mint-time
\* price; otherwise it succeeds and in that one step debits the buyer by exactly
\* price, credits the creator by exactly price, raises the creator's royalty
\* accrual by exactly price / 10 and makes the buyer the owner.
C1_PurchaseSettlesAtMintPrice ==
    [][\A buyer \in Principals, nft_id \in NftIds :
          Buys(buyer, nft_id) =>
              IF U64Lt(Balance(State, buyer), State.nfts[nft_id].price)
              THEN IsErr(last'.result, "Insufficient balance") /\ State' = State
              ELSE SettledAtMintPrice(buyer, nft_id)]_vars

\* the part of C1 the code keeps: the same, for the purchases in which neither
\* the credit nor the royalty accrual passes 2^64 - 1
NoOverflowIn(nft_id) ==
    LET nft == State.nfts[nft_id] IN
    /\ U64AddCarry(Balance(State, nft.creator), nft.price).carry = 0
    /\ U64AddCarry(Royalty(State, nft.creator), U64Div10(nft.price)).carry = 0

PurchaseSettlesAtMintPriceWithinRange ==
    [][\A buyer \in Principals, nft_id \in NftIds :
          Buys(buyer, nft_id) /\ NoOverflowIn(nft_id) =>
              IF U64Lt(Balance(State, buyer), State.nfts[nft_id].price)
              THEN IsErr(last'.result, "Insufficient balance") /\ State' = State
              ELSE SettledAtMintPrice(buyer, nft_id)]_vars

\* the step an add_balance call takes from its invocation to its await
Suspends == Runs("add_balance") /\ Len(last'.args) = 1

\* the balances with amount added to who's, computed exactly
Credited(st, who, amount, after) ==
    /\ ExactSum(Balance(st, who), amount, Balance(after, who))
    /\ \A p \in Principals \ {who} : Balance(after, p) = Balance(st, p)
    /\ after.nfts = st.nfts
    /\ after.next_id = st.next_id
    /\ after.creator_royalties = st.creator_royalties

\* C2: an add_balance call changes nothing in the store up to its await; when
\* the ledger reports a failure the store stays as it is and the call returns
\* an error; when it reports success exactly `amount` is added to the caller's
\* balance, once (the call is in flight no longer).
C2_TopUpMutatesOnlyAfterSuccess ==
    [][/\ Suspends => State' = State
       /\ Resumes =>
            /\ BagCardinality(in_flight') = BagCardinality(in_flight) - 1
            /\ IF last'.args[2]
               THEN /\ IsOk(last'.result)
                    /\ Credited(State, last'.caller, last'.args[1], State')
               ELSE /\ last'.result.tag = "Err"
                    /\ State' = State]_vars

\* the part of C2 the code keeps: the same, with the credit required only of
\* the settlements whose sum stays within 2^64 - 1
TopUpMutatesOnlyAfterSuccessWithinRange ==
    [][/\ Suspends => State' = State
       /\ Resumes =>
            /\ BagCardinality(in_flight') = BagCardinality(in_flight) - 1
            /\ IF last'.args[2]
               THEN U64AddCarry(Balance(State, last'.caller), last'.args[1]).carry = 0
                    => /\ IsOk(last'.result)
                       /\ Credited(State, last'.caller, last'.args[1], State')
               ELSE /\ last'.result.tag = "Err"
                    /\ State' = State]_vars

\* the conclusion of C3: the sum of all account balances equals the sum of the
\* amounts of the add_balance calls that settled successfully
C3_BalancesSumToSettledTopUps == TotalBalances(State) = settled

\* C3: the sum of all account balances changes only in the step that settles an
\* add_balance call successfully, and then it grows by exactly that call's
\* amount; every other step (a purchase included) leaves the sum as it is.
C3_BalanceSumMovesOnlyOnSettlement ==
    [][IF Resumes /\ IsOk(last'.result)
       THEN TotalBalances(State') = BigAdd(TotalBalances(State), last'.args[1])
       ELSE TotalBalances(State') = TotalBalances(State)]_vars

\* C4: the id a successful mint returns is greater than (hence different from)
\* every id an earlier successful mint returned.
C4_MintIdsStrictlyIncrease ==
    [][Runs("mint_skill_nft") /\ IsOk(last'.result) =>
          \A i \in issued : last'.result.val > i]_vars

\* a second mint has succeeded while an add_balance call was suspended
C4_SecondMintDuringTopUp ==
    /\ last.op = "mint_skill_nft" /\ IsOk(last.result)
    /\ last.result.val = 1
    /\ issued = {0, 1}
    /\ in_flight # EmptyBag

\* C5: a call that returns an error leaves the whole store (every nft, balance
\* and royalty accrual, and the next-id counter) as it was.
C5_ErrorsLeaveStoreUnchanged ==
    [][last = Idle /\ last'.result.tag = "Err" => State' = State]_vars

\* a mint has failed validation after an earlier mint had taken id 0
C5_FailedMintAfterMint ==
    /\ last.op = "mint_skill_nft" /\ last.result.tag = "Err"
    /\ State.next_id = 1
    /\ issued = {0}

AuthorizationErrors ==
    {"Only the creator can deactivate the NFT",
     "Only the owner can set the resale price",
     "Only the current owner can transfer ownership"}
IsAuthorizationError(r) == r.tag = "Err" /\ r.val \in AuthorizationErrors

\* a call of op on the existing nft nft_id
RunsOn(op, nft_id) ==
    Runs(op) /\ last'.args[1] = nft_id /\ nft_id \in DOMAIN State.nfts

\* C6 as claimed: on an existing nft, deactivate by anyone but its creator, and
\* set-resale-price or transfer by anyone but its owner, returns the
\* authorization error and changes no field of any nft.
C6_OnlyCreatorDeactivatesOnlyOwnerListsOrTransfers ==
    [][\A nft_id \in NftIds :
          /\ RunsOn("deactivate_nft", nft_id)
                /\ last'.caller # State.nfts[nft_id].creator
             => IsAuthorizationError(last'.result) /\ State'.nfts = State.nfts
          /\ RunsOn("set_resale_price", nft_id)
                /\ last'.caller # State.nfts[nft_id].owner
             => IsAuthorizationError(last'.result) /\ State'.nfts = State.nfts
          /\ RunsOn("transfer_nft_ownership", nft_id)
                /\ last'.caller # State.nfts[nft_id].owner
             => IsAuthorizationError(last'.result) /\ State'.nfts = State.nfts]_vars

\* C6 as amended: the same, with set-resale-price required to return the
\* authorization error only for a price greater than zero (a zero price is
\* rejected first, whoever calls); no field of any nft changes in either case.
C6_AuthorizationAfterPriceValidation ==
    [][\A nft_id \in NftIds :
          /\ RunsOn("deactivate_nft", nft_id)
                /\ last'.caller # State.nfts[nft_id].creator
             => IsAuthorizationError(last'.result) /\ State'.nfts = State.nfts
          /\ RunsOn("set_resale_price", nft_id)
                /\ last'.caller # State.nfts[nft_id].owner
             => /\ State'.nfts = State.nfts
                /\ IF last'.args[2] = U64Zero
                   THEN IsErr(last'.result, "Resale price must be greater than zero")
                   ELSE IsAuthorizationError(last'.result)
          /\ RunsOn("transfer_nft_ownership", nft_id)
                /\ last'.caller # State.nfts[nft_id].owner
             => IsAuthorizationError(last'.result) /\ State'.nfts = State.nfts]_vars

\* the current owner of an nft, who did not create it, was refused its deactivation
C6_OwnerRefusedDeactivation ==
    /\ last.op = "deactivate_nft" /\ IsAuthorizationError(last.result)
    /\ \E i \in DOMAIN State.nfts :
          /\ last.args = <<i>>
          /\ State.nfts[i].owner = last.caller
          /\ State.nfts[i].creator # last.caller
          /\ State.nfts[i].is_active

\* what C7 says of the queries on a deactivated nft
StillQueryable(nft_id) ==
    /\ Runs("get_nft") /\ last'.args = <<nft_id>>
       => nft_id \in DOMAIN State.nfts /\ last'.result.val = Some(State.nfts[nft_id])
    /\ Runs("get_user_nfts") /\ last'.args = <<State.nfts[nft_id].owner>>
       => State.nfts[nft_id] \in last'.result.val

\* C7 as claimed: once deactivate has succeeded on an nft, every purchase and
\* every transfer of it, by any caller, fails with the inactive-nft error, and
\* get and list-by-owner still return it.
C7_DeactivatedRefusesPurchaseAndTransfer ==
    [][\A nft_id \in deactivated :
          /\ Runs("purchase_skill_nft") /\ last'.args = <<nft_id>>
             => IsErr(last'.result, "NFT is not active")
          /\ Runs("transfer_nft_ownership") /\ last'.args[1] = nft_id
             => IsErr(last'.result, "Cannot transfer an inactive NFT")
          /\ StillQueryable(nft_id)]_vars

\* C7 as amended: every purchase fails with the inactive-nft error; every
\* transfer fails, with the inactive-nft error when the caller is the current
\* owner and with the authorization error when it is not; the queries still
\* return the nft.
C7_DeactivatedIsInert ==
    [][\A nft_id \in deactivated :
          /\ Runs("purchase_skill_nft") /\ last'.args = <<nft_id>>
             => IsErr(last'.result, "NFT is not active") /\ State' = State
          /\ Runs("transfer_nft_ownership") /\ last'.args[1] = nft_id
             => /\ State' = State
                /\ IF last'.caller = State.nfts[nft_id].owner
                   THEN IsErr(last'.result, "Cannot transfer an inactive NFT")
                   ELSE IsErr(last'.result,
                              "Only the current owner can transfer ownership")
          /\ StillQueryable(nft_id)]_vars

\* someone with the funds for it was refused the purchase of a deactivated nft
C7_FundedBuyerRefused ==
    /\ last.op = "purchase_skill_nft" /\ IsErr(last.result, "NFT is not active")
    /\ \E i \in deactivated :
          /\ last.args = <<i>>
          /\ State.nfts[i].owner # last.caller
          /\ ~U64Lt(Balance(State, last.caller), State.nfts[i].price)

\* C8: a purchase by the nft's current owner fails, whatever the owner's
\* balance and the nft's resale price, and changes no balance and no royalty
\* accrual.
C8_SelfPurchaseFails ==
    [][\A nft_id \in NftIds :
          RunsOn("purchase_skill_nft", nft_id)
             /\ last'.caller = State.nfts[nft_id].owner
          => /\ last'.result.tag = "Err"
             /\ State'.balances = State.balances
             /\ State'.creator_royalties = State.creator_royalties]_vars

\* an owner holding more than the price was refused the purchase of their own,
\* listed, active nft
C8_FundedOwnerRefused ==
    /\ last.op = "purchase_skill_nft"
    /\ IsErr(last.result, "Cannot purchase your own NFT")
    /\ \E i \in DOMAIN State.nfts :
          /\ last.args = <<i>>
          /\ State.nfts[i].resale_price # None
          /\ U64Lt(State.nfts[i].price, Balance(State, last.caller))

\* every listed nft was listed by its current owner since it last changed hands
ListedByCurrentOwner ==
    \A i \in DOMAIN State.nfts :
        State.nfts[i].resale_price # None
        => i \in DOMAIN listed /\ listed[i] = State.nfts[i].owner

\* C9: right after a successful purchase or transfer the nft's resale_price is
\* None, and in every state a present resale_price was set by the nft's current
\* owner during their current period of ownership.
C9_ResalePriceClearedOnOwnerChange ==
    [][/\ \A nft_id \in NftIds :
            (Runs("purchase_skill_nft") \/ Runs("transfer_nft_ownership"))
               /\ last'.args[1] = nft_id /\ IsOk(last'.result)
            => State'.nfts[nft_id].resale_price = None
       /\ ListedByCurrentOwner']_vars

\* an nft listed by its creator has changed hands and been listed again by its
\* new owner
C9_RelistedByNewOwner ==
    /\ last.op = "set_resale_price" /\ IsOk(last.result)
    /\ n_updates = 4
    /\ \E i \in DOMAIN State.nfts :
          /\ last.args[1] = i
          /\ State.nfts[i].creator # State.nfts[i].owner
          /\ listed[i] = State.nfts[i].owner
          /\ State.next_id = 1
          /\ in_flight = EmptyBag /\ State.balances = <<>>

\* what the handler of a call replies, and what it makes of the store st, when
\* it is given nothing but the store and the call
Handled(st, c, overflow_checks) ==
    CASE c.op = "mint_skill_nft" ->
            mint_skill_nft(st, c.caller, c.args[1], c.args[2], c.args[3], None, <<>>)
      [] c.op = "purchase_skill_nft" ->
            purchase_skill_nft(st, overflow_checks, c.caller, c.args[1])
      [] c.op = "set_resale_price" -> set_resale_price(st, c.caller, c.args[1], c.args[2])
      [] c.op = "deactivate_nft" -> deactivate_nft(st, c.caller, c.args[1])
      [] c.op = "transfer_nft_ownership" ->
            transfer_nft_ownership(st, c.caller, c.args[1], c.args[2])
      [] c.op = "get_nft" -> [state |-> st, result |-> Ok(get_nft(st, c.args[1]))]
      [] c.op = "get_user_nfts" ->
            [state |-> st, result |-> Ok(get_user_nfts(st, c.args[1]))]
      [] c.op = "get_active_nfts" -> [state |-> st, result |-> Ok(get_active_nfts(st))]
      [] c.op = "add_balance" -> [state |-> st, result |-> add_balance_call(c.args[1])]

\* every call can be taken up (an update that would take effect: while the
\* behaviour has updates left).  It is a predicate of the state before the step,
\* and C10 evaluates it at one step of each such state, its get_active_nfts query.
EveryCallEnabled ==
    n_updates < MaxUpdates =>
        /\ \A caller \in Minters, title \in Titles, description \in Descriptions,
              price \in Prices : ENABLED Mint(caller, title, description, price)
        /\ \A caller \in Principals, nft_id \in NftIds :
              /\ ENABLED Purchase(caller, nft_id, FALSE)
              /\ ENABLED Deactivate(caller, nft_id)
              /\ \A price \in ResalePrices : ENABLED SetResalePrice(caller, nft_id, price)
              /\ \A new_owner \in Principals : ENABLED Transfer(caller, nft_id, new_owner)
        /\ \A nft_id \in NftIds : ENABLED GetNft(nft_id)
        /\ \A user \in Principals : ENABLED GetUserNfts(user)
        /\ ENABLED GetActiveNfts
        /\ \A t \in TopUps : ENABLED AddBalanceCall(t[1], t[2])

\* C10: while add_balance calls are suspended at their await, every other call
\* (a further add_balance included) can be taken up, leaves the suspended calls
\* suspended, and replies and changes the store exactly as its handler does on
\* that store alone; a purchase by a caller whose own top-up is still pending
\* is decided on the balance without that credit.
C10_NothingLockedDuringTopUp ==
    [][in_flight # EmptyBag /\ last = Idle =>
          /\ Runs("get_active_nfts") => EveryCallEnabled
          /\ ~Resumes =>
                /\ \A c \in BagToSet(in_flight) : CopiesIn(c, in_flight') >= CopiesIn(c, in_flight)
                /\ \E overflow_checks \in BOOLEAN :
                      LET h == Handled(State, last', overflow_checks) IN
                      /\ State' = h.state
                      /\ last'.result.tag = h.result.tag
                      /\ last'.result.val = h.result.val
                /\ \A nft_id \in NftIds :
                      Buys(last'.caller, nft_id)
                         /\ U64Lt(Balance(State, last'.caller), State.nfts[nft_id].price)
                      => IsErr(last'.result, "Insufficient balance")]_vars

\* a purchase was refused for insufficient balance while the buyer's own
\* top-up, which would have covered the price, was awaiting the ledger
C10_PurchaseBeforeCreditLands ==
    /\ last.op = "purchase_skill_nft" /\ IsErr(last.result, "Insufficient balance")
    /\ \E c \in BagToSet(in_flight), i \in DOMAIN State.nfts :
          /\ c.caller = last.caller
          /\ last.args = <<i>>
          /\ ~U64Lt(c.amount, State.nfts[i].price)

\* ------------------------------------------------------------ C11
\* C11: deactivation is permanent: an nft whose is_active flag is false is
\* still stored, and still has the flag false, after every step.
C11_DeactivationIsPermanent ==
    [][\A i \in DOMAIN State.nfts :
          ~State.nfts[i].is_active =>
              i \in DOMAIN State'.nfts /\ ~State'.nfts[i].is_active]_vars

\* a deactivated nft has been listed for resale by its owner, and stayed inactive
C11_ListedAfterDeactivation ==
    /\ last.op = "set_resale_price" /\ IsOk(last.result)
    /\ last.args[1] \in deactivated
    /\ ~State.nfts[last.args[1]].is_active

\* ------------------------------------------------------------ C12
\* C12: the nft a successful mint stores has the minting caller as its creator
\* and as its owner, and no step changes the creator of a stored nft.
C12_CreatorIsTheMinterForever ==
    [][/\ \A i \in DOMAIN State.nfts :
             i \in DOMAIN State'.nfts /\ State'.nfts[i].creator = State.nfts[i].creator
       /\ Runs("mint_skill_nft") /\ IsOk(last'.result) =>
             /\ last'.result.val \notin DOMAIN State.nfts
             /\ State'.nfts[last'.result.val].creator = last'.caller
             /\ State'.nfts[last'.result.val].owner = last'.caller]_vars

\* an nft has been bought by somebody who is not its creator
C12_OwnedBySomebodyElse ==
    /\ last.op = "purchase_skill_nft" /\ IsOk(last.result)
    /\ State.nfts[last.args[1]].owner = last.caller
    /\ State.nfts[last.args[1]].creator # last.caller

\* ------------------------------------------------------------ C13
\* C13: a royalty accrual changes only in a successful purchase, and then it
\* is the accrual of the creator of the purchased nft that grows, by exactly
\* price / 10 rounded down; in every other step every accrual stays as it is.
\* So no accrual ever decreases.
C13_RoyaltyGrowsOnlyByTenthOfSale ==
    [][\A p \in Principals :
          IF /\ Runs("purchase_skill_nft") /\ IsOk(last'.result)
             /\ State.nfts[last'.args[1]].creator = p
          THEN ExactSum(Royalty(State, p), U64Div10(State.nfts[last'.args[1]].price),
                        Royalty(State', p))
          ELSE Royalty(State', p) = Royalty(State, p)]_vars

\* ------------------------------------------------------------ C14
\* C14: the store an upgrade restores is the store it saved: the nfts, the
\* balances, the royalty accruals and next_id after post_upgrade are those
\* before pre_upgrade, whatever the store and the order its maps are saved in.
C14_UpgradeRestoresTheStore ==
    [][Runs("post_upgrade") => State' = State]_vars

\* an upgrade of a store that holds a sold and relisted nft, two balances and
\* a royalty accrual
C14_UpgradedAfterSale ==
    /\ last.op = "post_upgrade"
    /\ \E i \in DOMAIN State.nfts :
          State.nfts[i].resale_price # None /\ State.nfts[i].owner # State.nfts[i].creator
    /\ Cardinality(DOMAIN State.balances) >= 2
    /\ \E p \in DOMAIN State.creator_royalties : State.creator_royalties[p] # U64Zero
    /\ State.next_id > 0

\* ------------------------------------------------------------ C15
\* C15: a successful transfer makes new_owner the owner of the nft and clears
\* its resale price; every other field of that nft (creator, price and
\* is_active among them), every other nft, all balances, all royalty accruals
\* and next_id are as before.
C15_TransferMovesOwnershipOnly ==
    [][Runs("transfer_nft_ownership") /\ IsOk(last'.result) =>
          LET nft_id == last'.args[1]
              new_owner == last'.args[2]
          IN  /\ State'.nfts[nft_id] =
                     [State.nfts[nft_id] EXCEPT !.owner = new_owner,
                                                !.resale_price = None]
              /\ DOMAIN State'.nfts = DOMAIN State.nfts
              /\ \A i \in DOMAIN State.nfts \ {nft_id} : State'.nfts[i] = State.nfts[i]
              /\ State'.balances = State.balances
              /\ State'.creator_royalties = State.creator_royalties
              /\ State'.next_id = State.next_id]_vars

\* an nft has been transferred in a store that holds another nft and a balance
C15_TransferredAmongOthers ==
    /\ last.op = "transfer_nft_ownership" /\ IsOk(last.result)
    /\ State.nfts[last.args[1]].owner = last.args[2]
    /\ Cardinality(DOMAIN State.nfts) >= 2
    /\ State.balances # <<>>

\* ------------------------------------------------------------ C16
\* the error a purchase must return: that of the first condition that fails,
\* in the order not found, inactive, caller is the owner, insufficient balance
PurchaseRefusal(st, buyer, nft_id) ==
    IF nft_id \notin DOMAIN st.nfts THEN "NFT not found"
    ELSE IF ~st.nfts[nft_id].is_active THEN "NFT is not active"
    ELSE IF st.nfts[nft_id].owner = buyer THEN "Cannot purchase your own NFT"
    ELSE IF U64Lt(Balance(st, buyer), st.nfts[nft_id].price) THEN "Insufficient balance"
    ELSE "none"

\* the error a transfer must return: that of the first condition that fails,
\* in the order not found, caller is not the owner, inactive, new owner is the
\* caller
TransferRefusal(st, caller, nft_id, new_owner) ==
    IF nft_id \notin DOMAIN st.nfts THEN "NFT not found"
    ELSE IF st.nfts[nft_id].owner # caller
    THEN "Only the current owner can transfer ownership"
    ELSE IF ~st.nfts[nft_id].is_active THEN "Cannot transfer an inactive NFT"
    ELSE IF new_owner = caller
    THEN "New owner must be different from the current owner"
    ELSE "none"

Refused(result, refusal) ==
    IF refusal = "none" THEN result.tag # "Err" ELSE result = Err(refusal)

\* C16: when several error conditions hold at once, purchase and transfer
\* return the error of the first one in their order of checks, and no error
\* when none holds.
C16_FirstFailedCheckDecidesTheError ==
    [][/\ Runs("purchase_skill_nft") =>
             Refused(last'.result, PurchaseRefusal(State, last'.caller, last'.args[1]))
       /\ Runs("transfer_nft_ownership") =>
             Refused(last'.result,
                     TransferRefusal(State, last'.caller, last'.args[1], last'.args[2]))]_vars

\* somebody who does not own a deactivated nft has tried to transfer it to
\* themself: three of the four conditions failed, the ownership check decided
C16_StrangerMovesInactiveToSelf ==
    /\ last.op = "transfer_nft_ownership"
    /\ last.args[1] \in DOMAIN State.nfts
    /\ ~State.nfts[last.args[1]].is_active
    /\ State.nfts[last.args[1]].owner # last.caller
    /\ last.args[2] = last.caller
    /\ last.result = Err("Only the current owner can transfer ownership")

\* ------------------------------------------------------------ C17
\* the ids in use are 0 .. next_id - 1 and each nft is stored under its own id
DenseIds(st) ==
    /\ DOMAIN st.nfts = 0 .. st.next_id - 1
    /\ \A i \in DOMAIN st.nfts : st.nfts[i].id = i

\* C17: after every step the stored ids are exactly 0 .. next_id - 1, each nft
\* is stored under the key equal to its id field, and get_nft still returns an
\* nft for every id it returned one for before the step.
C17_IdsAreDenseAndKept ==
    [][/\ DenseIds(State')
       /\ \A i \in NftIds : get_nft(State, i) # None => get_nft(State', i) # None]_vars

\* get_nft has returned the first of two minted nfts, now owned by a buyer
C17_FirstOfTwoStillReturned ==
    /\ last.op = "get_nft" /\ last.args = <<0>>
    /\ last.result.val # None
    /\ last.result.val[1].owner # last.result.val[1].creator
    /\ State.next_id = 2

\* ------------------------------------------------------------ C18
\* C18: whatever else is in flight and whatever ran since the call was made,
\* an add_balance call that settles successfully raises the balance of the
\* caller who made it by exactly its own amount and leaves every other balance
\* as it is.
C18_SettledTopUpCreditsItsInvokerExactly ==
    [][Resumes /\ IsOk(last'.result) =>
          /\ ExactSum(Balance(State, last'.caller), last'.args[1],
                      Balance(State', last'.caller))
          /\ \A p \in Principals \ {last'.caller} :
                Balance(State', p) = Balance(State, p)]_vars

\* ------------------------------------------------------------ C19
\* C19: when the creator of an active nft that somebody else owns buys it with
\* a balance of at least its price, the purchase succeeds, the creator's
\* balance is the same after it as before, the creator owns the nft again and
\* the creator's royalty accrual has grown by exactly price / 10.
C19_CreatorBuysBackAtNoCost ==
    [][\A nft_id \in NftIds :
          /\ Buys(last'.caller, nft_id)
          /\ State.nfts[nft_id].creator = last'.caller
          /\ ~U64Lt(Balance(State, last'.caller), State.nfts[nft_id].price)
          => /\ IsOk(last'.result)
             /\ Balance(State', last'.caller) = Balance(State, last'.caller)
             /\ State'.nfts[nft_id].owner = last'.caller
             /\ ExactSum(Royalty(State, last'.caller),
                         U64Div10(State.nfts[nft_id].price),
                         Royalty(State', last'.caller))]_vars

\* ------------------------------------------------------------ C20
\* C20: no balance computation leaves the u64 range: a purchase that gets past
\* its checks debits a balance of at least the price, and its credit to the
\* creator, like the credit of a top-up the ledger accepted, is a sum of at
\* most 2^64 - 1.
C20_BalanceArithmeticStaysInRange ==
    [][/\ Runs("purchase_skill_nft") /\ last'.result.tag # "Err" =>
             LET nft == State.nfts[last'.args[1]]
                 buyer_balance == Balance(State, last'.caller)
                 debited == Insert(State.balances, last'.caller,
                                   U64Sub(buyer_balance, nft.price))
             IN  /\ ~U64Lt(buyer_balance, nft.price)
                 /\ U64AddCarry(GetOr0(debited, nft.creator), nft.price).carry = 0
       /\ Resumes /\ last'.args[2] =>
             U64AddCarry(Balance(State, last'.caller), last'.args[1]).carry = 0]_vars

\* the part of C20 the code keeps: a purchase never debits more than the
\* buyer's balance
C20_DebitNeverUnderflows ==
    [][Runs("purchase_skill_nft") /\ last'.result.tag # "Err" =>
          ~U64Lt(Balance(State, last'.caller), State.nfts[last'.args[1]].price)]_vars

====
